---- MODULE Spec2Model ----
(***************************************************************************)
(* Model of src/Generators/Search_Cuda.cpp: the CUDA decode state machine  *)
(* (Search_Cuda, GreedySearch_Cuda, BeamSearch_Cuda, Processors_Cuda).     *)
(*                                                                         *)
(* The host thread runs the caller's decode loop; every cuda*Async call    *)
(* and kernel launch appends an operation to the FIFO `stream`, which the  *)
(* device executes asynchronously (action Device).  Blocking calls         *)
(* (cudaStreamSynchronize, cudaMemcpy) wait until the stream is empty.     *)
(*                                                                         *)
(* Sequences, BeamSearchScorer_Cuda, the kernels and the caller's loop are *)
(* not part of the source file; they are modelled from the specification.  *)
(***************************************************************************)
EXTENDS Integers, Sequences, FiniteSets, TLC

\* ------------------------------------------------------------------ bounds
MaxBatch == 2      \* greedy: batch_size in 1..MaxBatch
MaxLength == 3     \* max_length in 1..MaxLength
MaxBeams == 2      \* beam: num_beams in 2..MaxBeams, one batch element per beam group
MaxVocab == 3      \* vocab_size
MaxLogit == 1      \* raw logits are drawn from 0..MaxLogit

MinLengthArg == 2  \* the min_length the caller passes to MinLength

\* std::numeric_limits<ScoreType>::lowest()
Lowest == -1000

\* BeamSearch_Cuda::NextTokensFromLogits selects candidates for at most this
\* many beams.
TopKMaxBeams == 32

\* sizeof(int32_t): next_tokens_cpu_ is allocated with next_tokens_.size_bytes()
\* elements.
SizeofInt32 == 4

\* The running score beams other than the first start from.
NegInit == -100

\* Content of memory that was allocated and never written.
Garbage == -7

VARIABLES
  kind,               \* "greedy" (GreedySearch_Cuda) or "beam" (BeamSearch_Cuda)
  params_,            \* SearchParams_Cuda
  pc,                 \* host position in the caller's decode loop
  stream,             \* params_.cuda_stream: operations enqueued, not yet executed
  sequences_space_,   \* host buffer of 2 * batch_beam_size * max_length tokens
  sequences_,         \* Sequences: current_length_, current_sequences_buffer
  next_token_scores_, \* device, batch_beam_size * vocab_size
  next_tokens_,       \* device, selected tokens
  next_tokens_cpu_,   \* pinned host copy of next_tokens_ (greedy)
  eos_meet_,          \* device, batch_beam_size flags
  done_cpu_,          \* pinned host flag
  sequences_gpu_,     \* beam: pinned buffer of 2 * batch_beam_size * max_length tokens
  topk_next_,         \* beam: topk_next_scores_, topk_next_tokens_, topk_next_indices_
  beam_scorer_,       \* beam: BeamSearchScorer_Cuda
  output_,            \* the buffers the caller hands to Finalize, and how often
  masked,             \* history: MinLength wrote its mask in the current step
  steps,              \* history: number of appends done
  appended,           \* history: per row, the tokens handed to the host append
  logits_,            \* history: the logits tensor of the last SetLogits call
  syncs,              \* history: blocking host/device calls made in the current step
  selected,           \* history: the top-k selection of the current step has run
  met                 \* history: the step after which the scorer's criterion first held

vars == <<kind, params_, pc, stream, sequences_space_, sequences_,
          next_token_scores_, next_tokens_, next_tokens_cpu_, eos_meet_,
          done_cpu_, sequences_gpu_, topk_next_, beam_scorer_, output_,
          masked, steps, appended, logits_, syncs, selected, met>>

beamvars == <<sequences_gpu_, topk_next_, beam_scorer_, output_, appended>>

histvars == <<logits_, syncs, selected, met>>

\* ----------------------------------------------------------------- helpers
Idx(n) == 0 .. (n - 1)

Const(n, v) == [i \in Idx(n) |-> v]

BatchBeamSize(p) == p.batch_size * p.num_beams

Op(name, row, data) == [op |-> name, row |-> row, data |-> data]

\* float addition of scores; results below lowest() are not representable
FAdd(a, b) == IF a + b < Lowest THEN Lowest ELSE a + b

\* --------------------------------------------------------- construction
\* Mutant: the prompt of the first batch element is written to every row.
Mutant_SetInputSequence_NoBatchOffset(space, p) ==
  [k \in DOMAIN space |->
     IF /\ k < BatchBeamSize(p) * p.max_length
        /\ (k % p.max_length) < p.sequence_length
     THEN p.input_ids[k % p.max_length]
     ELSE space[k]]

\* Mutant: only the first beam row of a batch element receives the prompt.
Mutant_SetInputSequence_FirstBeamOnly(space, p) ==
  [k \in DOMAIN space |->
     IF /\ k < BatchBeamSize(p) * p.max_length
        /\ (k \div p.max_length) % p.num_beams = 0
        /\ (k % p.max_length) < p.sequence_length
     THEN p.input_ids[((k \div p.max_length) \div p.num_beams) * p.sequence_length
                      + (k % p.max_length)]
     ELSE space[k]]

\* Search_Cuda::SetInputSequence: expand the prompt of each batch element
\* into every beam row of the first half of sequences_space_.
SetInputSequence(space, p) ==
  [k \in DOMAIN space |->
     IF /\ k < BatchBeamSize(p) * p.max_length
        /\ (k % p.max_length) < p.sequence_length
     THEN p.input_ids[((k \div p.max_length) \div p.num_beams) * p.sequence_length
                      + (k % p.max_length)]
     ELSE space[k]]

\* Sequences::Init
Sequences_Init(p) == [current_length_ |-> p.sequence_length,
                      current_sequences_buffer |-> 0]

\* The configurations explored.  GreedySearch_Cuda can be constructed with
\* any num_beams (its constructor does not look at it); BeamSearch_Cuda
\* asserts num_beams > 1 and is also explored with one more beam than the
\* top-k selection handles, one token short of max_length, and with room for
\* one token more than the other configurations.  The prompt of every
\* batch element is different at every position: input_ids[i] = i % vocab_size.
Shapes ==
  [batch_size : 1 .. MaxBatch, num_beams : (1 .. MaxBeams) \cup {TopKMaxBeams + 1},
   sequence_length : 1 .. MaxLength, max_length : 1 .. (MaxLength + 1),
   vocab_size : 1 .. MaxVocab, eos_token_id : Idx(MaxVocab), pad_token_id : {0}]

ManyBeams(s) ==
  /\ s.num_beams = TopKMaxBeams + 1 /\ s.batch_size = 1
  /\ s.sequence_length = MaxLength - 1 /\ s.max_length = MaxLength
  /\ s.vocab_size <= 2

LongRun(s) ==
  /\ s.num_beams = 2 /\ s.batch_size = 1
  /\ s.sequence_length = 1 /\ s.max_length = MaxLength + 1
  /\ s.vocab_size = 2

Configs(k) ==
  { [input_ids |-> [i \in Idx(s.batch_size * s.sequence_length) |-> i % s.vocab_size]]
      @@ s :
    s \in { c \in Shapes :
              /\ c.sequence_length <= c.max_length
              /\ c.eos_token_id < c.vocab_size
              /\ IF k = "greedy"
                 THEN BatchBeamSize(c) <= MaxBatch /\ c.max_length <= MaxLength
                 ELSE /\ c.num_beams > 1
                      /\ \/ BatchBeamSize(c) <= MaxBeams /\ c.max_length <= MaxLength
                         \/ ManyBeams(c)
                         \/ LongRun(c) } }

\* No Finalize call yet.
NoOutput == [calls |-> 0, output |-> << >>, sequence_scores |-> << >>,
             first |-> << >>]

\* Search_Cuda::Search_Cuda followed by GreedySearch_Cuda::GreedySearch_Cuda
GreedySearch_Cuda(p) ==
  /\ kind = "greedy"
  /\ params_ = p
  /\ sequences_space_ =
       SetInputSequence(Const(2 * BatchBeamSize(p) * p.max_length, 0), p)
  /\ sequences_ = Sequences_Init(p)
  /\ eos_meet_ = Const(BatchBeamSize(p), TRUE)
  /\ next_token_scores_ = Const(BatchBeamSize(p) * p.vocab_size, Garbage)
  /\ next_tokens_ = Const(p.batch_size, Garbage)
  /\ next_tokens_cpu_ = Const(SizeofInt32 * p.batch_size, Garbage)
  /\ done_cpu_ \in BOOLEAN
  /\ stream = << Op("memset_eos_meet", 0, <<>>),
                 Op("memset_scores", 0, <<>>),
                 Op("memset_next_tokens", 0, <<>>) >>
  /\ sequences_gpu_ = << >>
  /\ topk_next_ = << >>
  /\ beam_scorer_ = << >>
  /\ output_ = NoOutput

\* BeamSearchScorer_Cuda at construction: no completed hypothesis, no batch
\* element done, and the running scores of the beams of each batch element.
BeamSearchScorer_Cuda(p, first_only) ==
  [next_beam_scores_  |-> [i \in Idx(BatchBeamSize(p)) |->
                            IF first_only /\ i % p.num_beams # 0 THEN NegInit ELSE 0],
   next_beam_tokens_  |-> Const(BatchBeamSize(p), 0),
   next_beam_indices_ |-> Const(BatchBeamSize(p), 0),
   beam_hyps_         |-> [b \in Idx(p.batch_size) |-> << >>],
   num_live_          |-> [b \in Idx(p.batch_size) |-> 0],
   done_              |-> [b \in Idx(p.batch_size) |-> FALSE],
   done_cpu           |-> FALSE]

\* Search_Cuda::Search_Cuda followed by BeamSearch_Cuda::BeamSearch_Cuda
BeamSearch_Cuda(p) ==
  /\ kind = "beam"
  /\ params_ = p
  /\ sequences_space_ =
       SetInputSequence(Const(2 * BatchBeamSize(p) * p.max_length, 0), p)
  /\ sequences_ = Sequences_Init(p)
  /\ eos_meet_ = Const(BatchBeamSize(p), TRUE)
  /\ next_token_scores_ = Const(BatchBeamSize(p) * p.vocab_size, Garbage)
  /\ next_tokens_ = << >>
  /\ next_tokens_cpu_ = << >>
  /\ done_cpu_ \in BOOLEAN
  /\ \E first_only \in BOOLEAN : beam_scorer_ = BeamSearchScorer_Cuda(p, first_only)
  /\ sequences_gpu_ = Const(2 * BatchBeamSize(p) * p.max_length, Garbage)
  /\ topk_next_ = [scores  |-> Const(2 * BatchBeamSize(p), Garbage),
                   tokens  |-> Const(2 * BatchBeamSize(p), Garbage),
                   indices |-> Const(2 * BatchBeamSize(p), Garbage)]
  /\ stream = << Op("memset_eos_meet", 0, <<>>),
                 Op("memset_scores", 0, <<>>),
                 Op("memcpy_sequences", 0,
                    [count |-> (2 * BatchBeamSize(p) * p.max_length) \div 2]) >>
  /\ output_ = NoOutput

Init ==
  /\ \/ \E p \in Configs("greedy") : GreedySearch_Cuda(p)
     \/ \E p \in Configs("beam") : BeamSearch_Cuda(p)
  /\ pc = "IsDone"
  /\ masked = FALSE
  /\ steps = 0
  /\ appended = [r \in Idx(BatchBeamSize(params_)) |-> << >>]
  /\ logits_ = [data |-> << >>, input_length |-> 0]
  /\ syncs = 0
  /\ selected = FALSE
  /\ met = 0

\* ------------------------------------------------------------ device side
\* One row of the score buffer.
Row(scores, i, vocab_size) == [v \in Idx(vocab_size) |-> scores[i * vocab_size + v]]

RECURSIVE MaxOf(_, _)
MaxOf(row, n) ==
  IF n = 1 THEN row[0]
  ELSE LET m == MaxOf(row, n - 1) IN IF row[n - 1] > m THEN row[n - 1] ELSE m

\* Launch_log_softmax on one row, in fixed point: every entry is shifted by
\* the row's maximum and by a normaliser that grows with the number of
\* entries that attain it, so the order within the row is kept and every
\* result is a log-probability (<= 0).
Launch_log_softmax(scores, i, count) ==
  LET row == Row(scores, i, count)
      m   == MaxOf(row, count)
      z   == Cardinality({v \in Idx(count) : row[v] = m}) - 1
  IN  [k \in DOMAIN scores |->
         IF k \div count = i THEN scores[k] - m - z ELSE scores[k]]

\* The reduction of Launch_SoftMax over one row: a left-to-right scan that
\* replaces the best index only by a strictly larger score.
RECURSIVE ArgMaxScan(_, _)
ArgMaxScan(row, n) ==
  IF n = 1 THEN 0
  ELSE LET best == ArgMaxScan(row, n - 1)
       IN  IF row[n - 1] > row[best] THEN n - 1 ELSE best

\* Launch_SoftMax(next_tokens, next_token_scores, batch_size, vocab_size)
Launch_SoftMax(tokens, scores, batch_size, vocab_size) ==
  [r \in DOMAIN tokens |->
     IF r < batch_size THEN ArgMaxScan(Row(scores, r, vocab_size), vocab_size)
     ELSE tokens[r]]

\* Launch_CheckForEOS: the rows that selected eos_token_id, or did so in an
\* earlier step, are flagged and their token is replaced by pad_token_id.
CheckForEOS_Flags(tokens, count, flags, eos) ==
  [i \in DOMAIN flags |->
     IF i < count /\ (tokens[i] = eos \/ flags[i]) THEN TRUE ELSE flags[i]]

CheckForEOS_Tokens(tokens, count, flags, eos, pad) ==
  [i \in DOMAIN tokens |->
     IF i < count /\ (tokens[i] = eos \/ flags[i]) THEN pad ELSE tokens[i]]

\* the aggregate flag is only ever set, never cleared
CheckForEOS_Done(newflags, count, done) ==
  IF \A i \in Idx(count) : newflags[i] THEN TRUE ELSE done

\* LaunchAddProbsKernel(log_probs, cum_log_probs, batch_size, num_beams,
\* vocab_size): the running score of a beam is added to every entry of its row.
LaunchAddProbsKernel(log_probs, cum_log_probs, batch_size, num_beams, vocab_size) ==
  [k \in DOMAIN log_probs |->
     IF k \div vocab_size < batch_size * num_beams
     THEN FAdd(log_probs[k], cum_log_probs[k \div vocab_size])
     ELSE log_probs[k]]

\* cuda::BeamSearchTopK for one batch element: the k best entries of the
\* num_beams rows of the element, best first; equal scores are ordered by
\* token id, then by beam.
Entries(scores, b, num_beams, vocab_size) ==
  { [score |-> scores[(b * num_beams + beam) * vocab_size + v],
     token |-> v, index |-> beam] : beam \in Idx(num_beams), v \in Idx(vocab_size) }

Before(e, f) ==
  \/ e.score > f.score
  \/ e.score = f.score /\ e.token < f.token
  \/ e.score = f.score /\ e.token = f.token /\ e.index < f.index

RECURSIVE TopKOf(_, _)
TopKOf(S, k) ==
  IF k = 0 \/ S = {} THEN << >>
  ELSE LET e == CHOOSE x \in S : \A y \in S \ {x} : Before(x, y)
       IN  << e >> \o TopKOf(S \ {e}, k - 1)

BeamSearchTopK(old, scores, batch_size, num_beams, vocab_size, k) ==
  LET best == [b \in Idx(batch_size) |->
                 TopKOf(Entries(scores, b, num_beams, vocab_size), k)]
      Got(i) == (i % k) + 1 <= Len(best[i \div k])
      At(i) == best[i \div k][(i % k) + 1]
  IN  [scores  |-> [i \in DOMAIN old.scores |->
                      IF i < batch_size * k /\ Got(i) THEN At(i).score
                      ELSE old.scores[i]],
       tokens  |-> [i \in DOMAIN old.tokens |->
                      IF i < batch_size * k /\ Got(i) THEN At(i).token
                      ELSE old.tokens[i]],
       indices |-> [i \in DOMAIN old.indices |->
                      IF i < batch_size * k /\ Got(i) THEN At(i).index
                      ELSE old.indices[i]]]

\* Sequences: row i of one half of the device buffer, as far as `length`.
DeviceRow(gpu, half, i, length, p) ==
  [j \in 1 .. length |->
     gpu[half * BatchBeamSize(p) * p.max_length + i * p.max_length + j - 1]]

\* The device append of the scorer: row i of the alternate half becomes row
\* next_beam_indices_[i] of the active half followed by next_beam_tokens_[i].
AppendDeviceReordered(gpu, half, length, indices, tokens, p) ==
  LET base == (1 - half) * BatchBeamSize(p) * p.max_length IN
  [k \in DOMAIN gpu |->
     IF k >= base /\ k < base + BatchBeamSize(p) * p.max_length
     THEN LET i == (k - base) \div p.max_length
              j == (k - base) % p.max_length
          IN  IF j < length
              THEN gpu[half * BatchBeamSize(p) * p.max_length
                       + indices[i] * p.max_length + j]
              ELSE IF j = length THEN tokens[i] ELSE gpu[k]
     ELSE gpu[k]]

\* BeamSearchScorer_Cuda: the completed hypotheses of a batch element, best
\* first.  A new hypothesis goes behind those that score at least as well.
RECURSIVE InsertHyp(_, _)
InsertHyp(hyps, h) ==
  IF hyps = << >> THEN << h >>
  ELSE IF h.score > Head(hyps).score THEN << h >> \o hyps
  ELSE << Head(hyps) >> \o InsertHyp(Tail(hyps), h)

\* Mutant: a better candidate overwrites the tokens of the worst member in
\* place, which keeps its score.
Mutant_AdmitHyp_InPlace(hyps, h, num_beams) ==
  IF Len(hyps) < num_beams THEN InsertHyp(hyps, h)
  ELSE IF h.score > hyps[Len(hyps)].score
       THEN [hyps EXCEPT ![Len(hyps)].tokens = h.tokens]
       ELSE hyps

\* Mutant: every end-of-sequence candidate is admitted.
Mutant_AdmitHyp_NoBound(hyps, h, num_beams) ==
  InsertHyp(hyps, h)

\* Admission of an end-of-sequence candidate: into a set that is not full,
\* or in place of the worst member when it scores better; else discarded.
AdmitHyp(hyps, h, num_beams) ==
  IF Len(hyps) < num_beams THEN InsertHyp(hyps, h)
  ELSE IF h.score > hyps[Len(hyps)].score
       THEN InsertHyp(SubSeq(hyps, 1, Len(hyps) - 1), h)
       ELSE hyps

\* BeamSearchScorer_Cuda::Process for batch element b: walk the candidates
\* from index j on, best first, until num_beams live slots are filled.
RECURSIVE ProcessBatch(_, _, _, _, _, _, _, _)
ProcessBatch(b, j, hyps, live, cand, gpu, seq, p) ==
  IF Len(live) = p.num_beams \/ j = 2 * p.num_beams
  THEN [hyps |-> hyps, live |-> live, read |-> j]
  ELSE LET i == b * 2 * p.num_beams + j
           c == [score |-> cand.scores[i], token |-> cand.tokens[i],
                 index |-> b * p.num_beams + cand.indices[i]]
       IN  IF c.token = p.eos_token_id
           THEN ProcessBatch(b, j + 1,
                  AdmitHyp(hyps,
                           [tokens |-> DeviceRow(gpu, seq.current_sequences_buffer,
                                                 c.index, seq.current_length_, p),
                            score |-> c.score],
                           p.num_beams),
                  live, cand, gpu, seq, p)
           ELSE ProcessBatch(b, j + 1, hyps, Append(live, c), cand, gpu, seq, p)

BeamSearchScorer_Process(scorer, cand, gpu, seq, p) ==
  LET r == [b \in Idx(p.batch_size) |->
              ProcessBatch(b, 0, scorer.beam_hyps_[b], << >>, cand, gpu, seq, p)]
      Slot(i) == r[i \div p.num_beams].live[(i % p.num_beams) + 1]
      Filled(i) == (i % p.num_beams) + 1 <= Len(r[i \div p.num_beams].live)
  IN  [scorer EXCEPT
         !.beam_hyps_ = [b \in Idx(p.batch_size) |-> r[b].hyps],
         !.num_live_ = [b \in Idx(p.batch_size) |-> Len(r[b].live)],
         !.next_beam_scores_ = [i \in DOMAIN @ |-> IF Filled(i) THEN Slot(i).score ELSE @[i]],
         !.next_beam_tokens_ = [i \in DOMAIN @ |-> IF Filled(i) THEN Slot(i).token ELSE @[i]],
         !.next_beam_indices_ = [i \in DOMAIN @ |-> IF Filled(i) THEN Slot(i).index ELSE @[i]]]

\* Candidates ran out before num_beams live slots were filled.
BeamSearchScorer_Exhausted(scorer, cand, gpu, seq, p) ==
  \E b \in Idx(p.batch_size) :
     Len(ProcessBatch(b, 0, scorer.beam_hyps_[b], << >>, cand, gpu, seq, p).live)
       < p.num_beams

\* The stopping criterion of one batch element: its completed set is full
\* and no live beam scores better than the worst completed hypothesis.
BatchIsDone(scorer, b, p) ==
  /\ Len(scorer.beam_hyps_[b]) = p.num_beams
  /\ \A i \in Idx(p.num_beams) :
        scorer.next_beam_scores_[b * p.num_beams + i]
          <= scorer.beam_hyps_[b][p.num_beams].score

\* The stopping criterion of the whole search: every batch element is done.
BeamSearchScorer_Criterion(scorer, p) ==
  \A b \in Idx(p.batch_size) : scorer.done_[b] \/ BatchIsDone(scorer, b, p)

\* The evaluation BeamSearchScorer_Cuda::IsDone starts; its result is what
\* IsDoneLater returns afterwards.
BeamSearchScorer_Evaluate(scorer, p) ==
  LET d == [b \in Idx(p.batch_size) |-> scorer.done_[b] \/ BatchIsDone(scorer, b, p)]
  IN  [scorer EXCEPT !.done_ = d,
                     !.done_cpu = \A b \in Idx(p.batch_size) : d[b]]

\* The device executes the operation at the head of the stream.
Device ==
  /\ stream # << >>
  /\ stream' = Tail(stream)
  /\ LET o == Head(stream)
         flags == CheckForEOS_Flags(next_tokens_, o.data.count, eos_meet_, o.data.eos)
         toks == CheckForEOS_Tokens(next_tokens_, o.data.count, eos_meet_,
                                    o.data.eos, o.data.pad)
     IN
     /\ eos_meet_' =
          CASE o.op = "memset_eos_meet" -> Const(BatchBeamSize(params_), FALSE)
            [] o.op = "check_eos" -> flags
            [] OTHER -> eos_meet_
     /\ next_token_scores_' =
          CASE o.op = "memset_scores" ->
                 Const(BatchBeamSize(params_) * params_.vocab_size, 0)
            [] o.op = "memcpy_logits" ->
                 [k \in DOMAIN next_token_scores_ |->
                    IF k \in o.row .. (o.row + Len(o.data) - 1)
                    THEN o.data[k - o.row + 1] ELSE next_token_scores_[k]]
            [] o.op = "log_softmax" ->
                 Launch_log_softmax(next_token_scores_, o.row, o.data.count)
            [] o.op = "add_probs" ->
                 LaunchAddProbsKernel(next_token_scores_, beam_scorer_.next_beam_scores_,
                                      o.data.batch_size, o.data.num_beams,
                                      o.data.vocab_size)
            [] OTHER -> next_token_scores_
     /\ next_tokens_' =
          CASE o.op = "memset_next_tokens" -> Const(params_.batch_size, 0)
            [] o.op = "argmax" ->
                 Launch_SoftMax(next_tokens_, next_token_scores_,
                                o.data.batch_size, o.data.vocab_size)
            [] o.op = "check_eos" -> toks
            [] OTHER -> next_tokens_
     /\ done_cpu_' =
          IF o.op = "check_eos"
          THEN CheckForEOS_Done(flags, o.data.count, done_cpu_)
          ELSE done_cpu_
     /\ sequences_gpu_' =
          CASE o.op = "memcpy_sequences" ->
                 [k \in DOMAIN sequences_gpu_ |->
                    IF k < o.data.count THEN sequences_space_[k] ELSE sequences_gpu_[k]]
            [] o.op = "append_device" ->
                 AppendDeviceReordered(sequences_gpu_, o.data.half, o.data.length,
                                       beam_scorer_.next_beam_indices_,
                                       beam_scorer_.next_beam_tokens_, params_)
            [] OTHER -> sequences_gpu_
     /\ topk_next_' =
          IF o.op = "topk"
          THEN BeamSearchTopK(topk_next_, next_token_scores_, o.data.batch_size,
                              o.data.num_beams, o.data.vocab_size, o.data.k)
          ELSE topk_next_
     /\ beam_scorer_' =
          CASE o.op = "scorer_is_done" -> BeamSearchScorer_Evaluate(beam_scorer_, params_)
            [] o.op = "check_eos" /\ kind = "beam" ->
                 [beam_scorer_ EXCEPT !.next_beam_tokens_ = toks]
            [] OTHER -> beam_scorer_
  /\ selected' = (selected \/ Head(stream).op = "topk")
  /\ UNCHANGED <<kind, params_, pc, sequences_space_, sequences_,
                 next_tokens_cpu_, output_, masked, steps, appended>>
  /\ UNCHANGED <<logits_, syncs, met>>

\* -------------------------------------------------------------- host side
\* The logits tensors the model hands over: shape
\* (batch_beam_size, input_length, vocab_size), flat.  The last position of
\* row i holds x[i]; every earlier position holds a vector that differs from
\* it in every entry.
\* The score vectors the model produces for one row: one token ahead of the
\* others, all tokens level, or all tokens but the first level ahead.
LogitRows(vocab_size) ==
  { [v \in Idx(vocab_size) |-> IF v = h THEN MaxLogit ELSE 0] : h \in Idx(vocab_size) }
  \cup { [v \in Idx(vocab_size) |-> 0],
         [v \in Idx(vocab_size) |-> IF v = 0 THEN 0 ELSE MaxLogit] }

\* One score vector per row; with more rows than the top-k selection handles
\* every row gets the same vector.
LogitInputs(rows, vocab_size) ==
  IF rows <= TopKMaxBeams
  THEN [Idx(rows) -> LogitRows(vocab_size)]
  ELSE { [i \in Idx(rows) |-> r] : r \in LogitRows(vocab_size) }

LogitsTensor(x, rows, input_length, vocab_size) ==
  [k \in Idx(rows * input_length * vocab_size) |->
     LET i == k \div (input_length * vocab_size)
         q == (k % (input_length * vocab_size)) \div vocab_size
         v == k % vocab_size
     IN  (x[i][v] + (input_length - 1 - q)) % (MaxLogit + 1)]

\* Mutant: the slice at the first position of the input is copied.
Mutant_SetLogits_FirstPosition(logits, input_length, vocab_size, batch_beam_size) ==
  [k \in 1 .. (2 * batch_beam_size) |->
     LET i == (k - 1) \div 2
         current_logits == i * input_length * vocab_size
     IN  IF k % 2 = 1
         THEN Op("memcpy_logits", i * vocab_size,
                 [v \in 1 .. vocab_size |-> logits[current_logits + v - 1]])
         ELSE Op("log_softmax", i, [count |-> vocab_size])]

\* Search_Cuda::SetLogits: for each row, an asynchronous copy of the slice at
\* the last position followed by a log-softmax launch on the target row.
SetLogits_Ops(logits, input_length, vocab_size, batch_beam_size) ==
  [k \in 1 .. (2 * batch_beam_size) |->
     LET i == (k - 1) \div 2
         current_logits == (input_length - 1) * vocab_size
                           + i * input_length * vocab_size
     IN  IF k % 2 = 1
         THEN Op("memcpy_logits", i * vocab_size,
                 [v \in 1 .. vocab_size |-> logits[current_logits + v - 1]])
         ELSE Op("log_softmax", i, [count |-> vocab_size])]

SetLogits ==
  /\ pc = "SetLogits"
  /\ LET rows == BatchBeamSize(params_)
         input_length == IF steps = 0 THEN params_.sequence_length ELSE 1
     IN  \E x \in LogitInputs(rows, params_.vocab_size) :
           LET logits == LogitsTensor(x, rows, input_length, params_.vocab_size)
           IN  /\ logits_' = [data |-> logits, input_length |-> input_length]
               /\ stream' = stream \o
                     SetLogits_Ops(logits, input_length, params_.vocab_size, rows)
  /\ masked' = FALSE
  /\ syncs' = 0
  /\ selected' = FALSE
  /\ UNCHANGED met
  /\ pc' = "MinLength"
  /\ UNCHANGED <<kind, params_, sequences_space_, sequences_, next_token_scores_,
                 next_tokens_, next_tokens_cpu_, eos_meet_, done_cpu_, steps>>
  /\ UNCHANGED beamvars

\* Processors_Cuda::MinLength: a loop on the host that stores lowest() into
\* the score buffer through a span of device memory.  The stores are not
\* operations of the stream: they take effect at once, whatever the stream
\* still holds, or the access faults.
MinLength_Scores(scores, p) ==
  [k \in DOMAIN scores |->
     IF k % p.vocab_size = p.eos_token_id THEN Lowest ELSE scores[k]]

MinLength(min_length) ==
  /\ pc = "MinLength"
  /\ IF sequences_.current_length_ >= min_length
     THEN /\ pc' = "NextTokens"
          /\ UNCHANGED <<next_token_scores_, masked>>
     ELSE \/ /\ next_token_scores_' = MinLength_Scores(next_token_scores_, params_)
             /\ masked' = TRUE
             /\ pc' = "NextTokens"
          \/ /\ pc' = "Fault"
             /\ UNCHANGED <<next_token_scores_, masked>>
  /\ UNCHANGED <<kind, params_, stream, sequences_space_, sequences_,
                 next_tokens_, next_tokens_cpu_, eos_meet_, done_cpu_, steps>>
  /\ UNCHANGED beamvars
  /\ UNCHANGED histvars

\* Mutant: the launch passes a row width that is one short (of a vocabulary
\* of more than one token).
Mutant_GreedyNextTokens_Stride ==
  /\ pc = "NextTokens" /\ kind = "greedy"
  /\ stream' = Append(stream, Op("argmax", 0,
                  [batch_size |-> params_.batch_size,
                   vocab_size |-> IF params_.vocab_size > 1
                                  THEN params_.vocab_size - 1 ELSE 1]))
  /\ pc' = "CheckForEOS"
  /\ UNCHANGED <<kind, params_, sequences_space_, sequences_, next_token_scores_,
                 next_tokens_, next_tokens_cpu_, eos_meet_, done_cpu_, masked, steps>>
  /\ UNCHANGED beamvars
  /\ UNCHANGED histvars

\* GreedySearch_Cuda::NextTokensFromLogits
GreedySearch_NextTokensFromLogits ==
  /\ pc = "NextTokens" /\ kind = "greedy"
  /\ stream' = Append(stream, Op("argmax", 0,
                  [batch_size |-> params_.batch_size,
                   vocab_size |-> params_.vocab_size]))
  /\ pc' = "CheckForEOS"
  /\ UNCHANGED <<kind, params_, sequences_space_, sequences_, next_token_scores_,
                 next_tokens_, next_tokens_cpu_, eos_meet_, done_cpu_, masked, steps>>
  /\ UNCHANGED beamvars
  /\ UNCHANGED histvars

\* Search_Cuda::CheckForEOS.  The assert on the sizes stops the program when
\* it fails in a build that keeps asserts; a build without them launches the
\* kernel on next_tokens_.size() rows.
CheckForEOS ==
  /\ pc = "CheckForEOS"
  /\ \/ /\ stream' = Append(stream, Op("check_eos", 0,
                          [count |-> Cardinality(DOMAIN next_tokens_),
                           eos |-> params_.eos_token_id,
                           pad |-> params_.pad_token_id]))
        /\ pc' = "Append"
     \/ /\ Cardinality(DOMAIN next_tokens_) # Cardinality(DOMAIN eos_meet_)
        /\ pc' = "Fatal"
        /\ UNCHANGED stream
  /\ UNCHANGED <<kind, params_, sequences_space_, sequences_, next_token_scores_,
                 next_tokens_, next_tokens_cpu_, eos_meet_, done_cpu_, masked, steps>>
  /\ UNCHANGED beamvars
  /\ UNCHANGED histvars

\* Sequences::AppendNextTokenToSequences(next_tokens): one token per row on
\* the host-resident half.
Sequences_AppendNextTokenToSequences(space, seq, p, tokens) ==
  [k \in DOMAIN space |->
     IF /\ k < BatchBeamSize(p) * p.max_length
        /\ k % p.max_length = seq.current_length_
     THEN tokens[k \div p.max_length]
     ELSE space[k]]

\* The tokens Sequences::AppendNextTokenToSequences reads, one per row of
\* the sequence buffer, through the span over next_tokens_cpu_.
AppendedTokens(cpu, p) ==
  [r \in Idx(BatchBeamSize(p)) |-> IF r \in DOMAIN cpu THEN cpu[r] ELSE Garbage]

\* Mutant: the append does not set the done flag at max_length.
Mutant_GreedyAppend_NoDone ==
  /\ pc = "Append" /\ kind = "greedy"
  /\ stream = << >>
  /\ next_tokens_cpu_' = [k \in DOMAIN next_tokens_cpu_ |->
                            IF k \in DOMAIN next_tokens_ THEN next_tokens_[k]
                            ELSE next_tokens_cpu_[k]]
  /\ \/ /\ sequences_.current_length_ < params_.max_length
        /\ sequences_space_' =
             Sequences_AppendNextTokenToSequences(sequences_space_, sequences_,
                 params_, AppendedTokens(next_tokens_cpu_', params_))
        /\ sequences_' = [sequences_ EXCEPT !.current_length_ = @ + 1]
        /\ UNCHANGED done_cpu_
        /\ steps' = steps + 1
        /\ appended' = [r \in DOMAIN appended |->
                          Append(appended[r],
                                 AppendedTokens(next_tokens_cpu_', params_)[r])]
        /\ pc' = "IsDone"
     \/ /\ sequences_.current_length_ >= params_.max_length
        /\ pc' = "Fatal"
        /\ UNCHANGED <<sequences_space_, sequences_, done_cpu_, steps, appended>>
     \/ /\ BatchBeamSize(params_) > Cardinality(DOMAIN next_tokens_)
        /\ pc' = "Fault"
        /\ UNCHANGED <<sequences_space_, sequences_, done_cpu_, steps, appended>>
  /\ syncs' = syncs + 1
  /\ UNCHANGED <<kind, params_, stream, next_token_scores_, next_tokens_,
                 eos_meet_, masked>>
  /\ UNCHANGED <<sequences_gpu_, topk_next_, beam_scorer_, output_>>
  /\ UNCHANGED <<logits_, selected, met>>

\* GreedySearch_Cuda::AppendNextTokensToSequences.  cudaMemcpy blocks until
\* the work queued before it has finished.  The span handed to the append
\* has next_tokens_.size() entries; with more rows than that the append reads
\* behind the span, which yields what next_tokens_cpu_ holds there or faults.
GreedySearch_AppendNextTokensToSequences ==
  /\ pc = "Append" /\ kind = "greedy"
  /\ stream = << >>
  /\ next_tokens_cpu_' = [k \in DOMAIN next_tokens_cpu_ |->
                            IF k \in DOMAIN next_tokens_ THEN next_tokens_[k]
                            ELSE next_tokens_cpu_[k]]
  /\ \/ /\ sequences_.current_length_ < params_.max_length
        /\ sequences_space_' =
             Sequences_AppendNextTokenToSequences(sequences_space_, sequences_,
                 params_, AppendedTokens(next_tokens_cpu_', params_))
        /\ sequences_' = [sequences_ EXCEPT !.current_length_ = @ + 1]
        /\ done_cpu_' = IF sequences_'.current_length_ = params_.max_length
                        THEN TRUE ELSE done_cpu_
        /\ steps' = steps + 1
        /\ appended' = [r \in DOMAIN appended |->
                          Append(appended[r],
                                 AppendedTokens(next_tokens_cpu_', params_)[r])]
        /\ pc' = "IsDone"
     \/ /\ sequences_.current_length_ >= params_.max_length
        /\ pc' = "Fatal"
        /\ UNCHANGED <<sequences_space_, sequences_, done_cpu_, steps, appended>>
     \/ /\ BatchBeamSize(params_) > Cardinality(DOMAIN next_tokens_)
        /\ pc' = "Fault"
        /\ UNCHANGED <<sequences_space_, sequences_, done_cpu_, steps, appended>>
  /\ syncs' = syncs + 1
  /\ UNCHANGED <<kind, params_, stream, next_token_scores_, next_tokens_,
                 eos_meet_, masked>>
  /\ UNCHANGED <<sequences_gpu_, topk_next_, beam_scorer_, output_>>
  /\ UNCHANGED <<logits_, selected, met>>

\* GreedySearch_Cuda::IsDone polls the pinned flag.
GreedySearch_IsDone == done_cpu_

\* Mutant: the selection asks for num_beams candidates, not 2 * num_beams.
Mutant_BeamNextTokens_NoOversampling ==
  /\ pc = "NextTokens" /\ kind = "beam"
  /\ stream' = stream \o
       << Op("add_probs", 0, [batch_size |-> params_.batch_size,
                              num_beams |-> params_.num_beams,
                              vocab_size |-> params_.vocab_size]),
          Op("topk", 0, [batch_size |-> params_.batch_size,
                         num_beams |-> params_.num_beams,
                         vocab_size |-> params_.vocab_size,
                         k |-> params_.num_beams]) >>
  /\ pc' = "Synchronize"
  /\ UNCHANGED <<kind, params_, sequences_space_, sequences_, next_token_scores_,
                 next_tokens_, next_tokens_cpu_, eos_meet_, done_cpu_, masked, steps>>
  /\ UNCHANGED beamvars
  /\ UNCHANGED histvars

\* BeamSearch_Cuda::NextTokensFromLogits up to cudaStreamSynchronize: the
\* running scores are added and the 2 * num_beams best candidates of every
\* batch element are selected, both on the stream.  With more beams than the
\* selection handles nothing is selected and assert(false) is reached: a
\* build that keeps asserts stops there, a build without them goes on.
BeamSearch_NextTokensFromLogits ==
  /\ pc = "NextTokens" /\ kind = "beam"
  /\ LET add == Op("add_probs", 0, [batch_size |-> params_.batch_size,
                                     num_beams |-> params_.num_beams,
                                     vocab_size |-> params_.vocab_size])
         topk == Op("topk", 0, [batch_size |-> params_.batch_size,
                                num_beams |-> params_.num_beams,
                                vocab_size |-> params_.vocab_size,
                                k |-> 2 * params_.num_beams])
     IN  IF params_.num_beams <= TopKMaxBeams
         THEN /\ stream' = stream \o << add, topk >>
              /\ pc' = "Synchronize"
         ELSE /\ stream' = Append(stream, add)
              /\ pc' \in {"Fatal", "Synchronize"}
  /\ UNCHANGED <<kind, params_, sequences_space_, sequences_, next_token_scores_,
                 next_tokens_, next_tokens_cpu_, eos_meet_, done_cpu_, masked, steps>>
  /\ UNCHANGED beamvars
  /\ UNCHANGED histvars

\* A candidate slot the selection never wrote holds whatever the allocation
\* held: reading it yields an arbitrary candidate, the same for every such
\* slot, or the value read leads the scorer out of its buffers.
UnwrittenReads(p) ==
  { [score |-> 0, token |-> t, index |-> 0] : t \in Idx(p.vocab_size) }

Unwritten(cand, p) ==
  { i \in Idx(2 * BatchBeamSize(p)) : cand.tokens[i] = Garbage }

ReadCandidates(cand, g, p) ==
  [scores  |-> [i \in DOMAIN cand.scores |->
                  IF i \in Unwritten(cand, p) THEN g.score ELSE cand.scores[i]],
   tokens  |-> [i \in DOMAIN cand.tokens |->
                  IF i \in Unwritten(cand, p) THEN g.token ELSE cand.tokens[i]],
   indices |-> [i \in DOMAIN cand.indices |->
                  IF i \in Unwritten(cand, p) THEN g.index ELSE cand.indices[i]]]

\* The walk over the candidates `read` reaches a slot of `raw` that was
\* never written.
ReadsUnwritten(scorer, raw, read, gpu, seq, p) ==
  \E b \in Idx(p.batch_size) :
     \E i \in Unwritten(raw, p) :
        /\ i \div (2 * p.num_beams) = b
        /\ i % (2 * p.num_beams)
             < ProcessBatch(b, 0, scorer.beam_hyps_[b], << >>, read, gpu, seq, p).read

\* Mutant: the scorer goes on when the candidates run out before num_beams
\* live slots are filled.
Mutant_BeamProcess_Unchecked ==
  /\ pc = "Synchronize" /\ kind = "beam"
  /\ stream = << >>
  /\ \E g \in UnwrittenReads(params_) :
       LET cand == ReadCandidates(topk_next_, g, params_) IN
       \/ /\ ReadsUnwritten(beam_scorer_, topk_next_, cand, sequences_gpu_,
                             sequences_, params_)
          /\ pc' = "Fault"
          /\ UNCHANGED <<beam_scorer_, next_tokens_, stream>>
       \/ /\ sequences_.current_length_ >= params_.max_length
          /\ pc' = "Fatal"
          /\ UNCHANGED <<beam_scorer_, next_tokens_, stream>>
       \/ /\ sequences_.current_length_ < params_.max_length
          /\ beam_scorer_' = BeamSearchScorer_Process(beam_scorer_, cand,
                                 sequences_gpu_, sequences_, params_)
          /\ next_tokens_' = beam_scorer_'.next_beam_tokens_
          /\ stream' = << Op("append_device", 0,
                             [half |-> sequences_.current_sequences_buffer,
                              length |-> sequences_.current_length_]) >>
          /\ pc' = "CheckForEOS"
  /\ syncs' = syncs + 1
  /\ UNCHANGED <<kind, params_, sequences_space_, sequences_, next_token_scores_,
                 next_tokens_cpu_, eos_meet_, done_cpu_, sequences_gpu_, topk_next_,
                 output_, masked, steps, appended>>
  /\ UNCHANGED <<logits_, selected, met>>

\* Mutant: next_tokens_ is not set to the scorer's next tokens.
Mutant_BeamProcess_KeepNextTokens ==
  /\ pc = "Synchronize" /\ kind = "beam"
  /\ stream = << >>
  /\ \E g \in UnwrittenReads(params_) :
       LET cand == ReadCandidates(topk_next_, g, params_) IN
       \/ /\ ReadsUnwritten(beam_scorer_, topk_next_, cand, sequences_gpu_,
                             sequences_, params_)
          /\ pc' = "Fault"
          /\ UNCHANGED <<beam_scorer_, next_tokens_, stream>>
       \/ /\ \/ sequences_.current_length_ >= params_.max_length
             \/ BeamSearchScorer_Exhausted(beam_scorer_, cand, sequences_gpu_,
                                           sequences_, params_)
          /\ pc' = "Fatal"
          /\ UNCHANGED <<beam_scorer_, next_tokens_, stream>>
       \/ /\ sequences_.current_length_ < params_.max_length
          /\ ~BeamSearchScorer_Exhausted(beam_scorer_, cand, sequences_gpu_,
                                         sequences_, params_)
          /\ beam_scorer_' = BeamSearchScorer_Process(beam_scorer_, cand,
                                 sequences_gpu_, sequences_, params_)
          /\ UNCHANGED next_tokens_
          /\ stream' = << Op("append_device", 0,
                             [half |-> sequences_.current_sequences_buffer,
                              length |-> sequences_.current_length_]) >>
          /\ pc' = "CheckForEOS"
  /\ syncs' = syncs + 1
  /\ UNCHANGED <<kind, params_, sequences_space_, sequences_, next_token_scores_,
                 next_tokens_cpu_, eos_meet_, done_cpu_, sequences_gpu_, topk_next_,
                 output_, masked, steps, appended>>
  /\ UNCHANGED <<logits_, selected, met>>

\* Mutant: the scorer processes the candidates without cudaStreamSynchronize.
Mutant_BeamProcess_NoSync ==
  /\ pc = "Synchronize" /\ kind = "beam"
  /\ \E g \in UnwrittenReads(params_) :
       LET cand == ReadCandidates(topk_next_, g, params_) IN
       \/ /\ ReadsUnwritten(beam_scorer_, topk_next_, cand, sequences_gpu_,
                             sequences_, params_)
          /\ pc' = "Fault"
          /\ UNCHANGED <<beam_scorer_, next_tokens_, stream>>
       \/ /\ \/ sequences_.current_length_ >= params_.max_length
             \/ BeamSearchScorer_Exhausted(beam_scorer_, cand, sequences_gpu_,
                                           sequences_, params_)
          /\ pc' = "Fatal"
          /\ UNCHANGED <<beam_scorer_, next_tokens_, stream>>
       \/ /\ sequences_.current_length_ < params_.max_length
          /\ ~BeamSearchScorer_Exhausted(beam_scorer_, cand, sequences_gpu_,
                                         sequences_, params_)
          /\ beam_scorer_' = BeamSearchScorer_Process(beam_scorer_, cand,
                                 sequences_gpu_, sequences_, params_)
          /\ next_tokens_' = beam_scorer_'.next_beam_tokens_
          /\ stream' = Append(stream, Op("append_device", 0,
                             [half |-> sequences_.current_sequences_buffer,
                              length |-> sequences_.current_length_]))
          /\ pc' = "CheckForEOS"
  /\ syncs' = syncs
  /\ UNCHANGED <<kind, params_, sequences_space_, sequences_, next_token_scores_,
                 next_tokens_cpu_, eos_meet_, done_cpu_, sequences_gpu_, topk_next_,
                 output_, masked, steps, appended>>
  /\ UNCHANGED <<logits_, selected, met>>

\* BeamSearch_Cuda::NextTokensFromLogits from cudaStreamSynchronize on: the
\* host waits for the stream, the scorer processes the candidates and
\* next_tokens_ becomes the scorer's next tokens.  The scorer queues the
\* device append of the tokens it chose.
BeamSearch_Process ==
  /\ pc = "Synchronize" /\ kind = "beam"
  /\ stream = << >>
  /\ \E g \in UnwrittenReads(params_) :
       LET cand == ReadCandidates(topk_next_, g, params_) IN
       \/ /\ ReadsUnwritten(beam_scorer_, topk_next_, cand, sequences_gpu_,
                             sequences_, params_)
          /\ pc' = "Fault"
          /\ UNCHANGED <<beam_scorer_, next_tokens_, stream>>
       \/ /\ \/ sequences_.current_length_ >= params_.max_length
             \/ BeamSearchScorer_Exhausted(beam_scorer_, cand, sequences_gpu_,
                                           sequences_, params_)
          /\ pc' = "Fatal"
          /\ UNCHANGED <<beam_scorer_, next_tokens_, stream>>
       \/ /\ sequences_.current_length_ < params_.max_length
          /\ ~BeamSearchScorer_Exhausted(beam_scorer_, cand, sequences_gpu_,
                                         sequences_, params_)
          /\ beam_scorer_' = BeamSearchScorer_Process(beam_scorer_, cand,
                                 sequences_gpu_, sequences_, params_)
          /\ next_tokens_' = beam_scorer_'.next_beam_tokens_
          /\ stream' = << Op("append_device", 0,
                             [half |-> sequences_.current_sequences_buffer,
                              length |-> sequences_.current_length_]) >>
          /\ pc' = "CheckForEOS"
  /\ syncs' = syncs + 1
  /\ UNCHANGED <<kind, params_, sequences_space_, sequences_, next_token_scores_,
                 next_tokens_cpu_, eos_meet_, done_cpu_, sequences_gpu_, topk_next_,
                 output_, masked, steps, appended>>
  /\ UNCHANGED <<logits_, selected, met>>

\* Sequences::AfterDeviceAppendedNextToken: the alternate half becomes the
\* active one and the length grows by one.
Sequences_AfterDeviceAppendedNextToken(seq) ==
  [current_length_ |-> seq.current_length_ + 1,
   current_sequences_buffer |-> 1 - seq.current_sequences_buffer]

\* Mutant: the disabled host append is made as well, so the length grows twice.
Mutant_BeamAppend_Twice ==
  /\ pc = "Append" /\ kind = "beam"
  /\ sequences_' = [Sequences_AfterDeviceAppendedNextToken(sequences_)
                      EXCEPT !.current_length_ = @ + 1]
  /\ steps' = steps + 1
  /\ pc' = "IsDone"
  /\ UNCHANGED <<kind, params_, stream, sequences_space_, next_token_scores_,
                 next_tokens_, next_tokens_cpu_, eos_meet_, done_cpu_, masked>>
  /\ UNCHANGED beamvars
  /\ met' = IF met = 0 /\ BeamSearchScorer_Criterion(beam_scorer_, params_)
             THEN steps' ELSE met
  /\ UNCHANGED <<logits_, syncs, selected>>

\* Mutant: the length is advanced as for a host append, without making the
\* alternate half the active one.
Mutant_BeamAppend_NoSwap ==
  /\ pc = "Append" /\ kind = "beam"
  /\ sequences_' = [sequences_ EXCEPT !.current_length_ = @ + 1]
  /\ steps' = steps + 1
  /\ pc' = "IsDone"
  /\ UNCHANGED <<kind, params_, stream, sequences_space_, next_token_scores_,
                 next_tokens_, next_tokens_cpu_, eos_meet_, done_cpu_, masked>>
  /\ UNCHANGED beamvars
  /\ met' = IF met = 0 /\ BeamSearchScorer_Criterion(beam_scorer_, params_)
             THEN steps' ELSE met
  /\ UNCHANGED <<logits_, syncs, selected>>

\* BeamSearch_Cuda::AppendNextTokensToSequences
BeamSearch_AppendNextTokensToSequences ==
  /\ pc = "Append" /\ kind = "beam"
  /\ sequences_' = Sequences_AfterDeviceAppendedNextToken(sequences_)
  /\ steps' = steps + 1
  /\ pc' = "IsDone"
  /\ UNCHANGED <<kind, params_, stream, sequences_space_, next_token_scores_,
                 next_tokens_, next_tokens_cpu_, eos_meet_, done_cpu_, masked>>
  /\ UNCHANGED beamvars
  /\ met' = IF met = 0 /\ BeamSearchScorer_Criterion(beam_scorer_, params_)
             THEN steps' ELSE met
  /\ UNCHANGED <<logits_, syncs, selected>>

\* Mutant: the test of the length against max_length is left out.
Mutant_BeamIsDone_NoMaxLength == beam_scorer_.done_cpu

\* BeamSearch_Cuda::IsDone without the scorer's result.
Mutant_BeamIsDone_LengthOnly ==
  sequences_.current_length_ = params_.max_length

\* BeamSearch_Cuda::IsDone: the value returned, read after the scorer's
\* evaluation has been started.
BeamSearch_IsDone ==
  beam_scorer_.done_cpu \/ sequences_.current_length_ = params_.max_length

\* The caller's loop: while (!IsDone()) { one step }.  In beam search the
\* call first starts the scorer's evaluation on the stream (line 225) and
\* then reads the result (line 226); the device may run the evaluation
\* before the host reads.
IsDone ==
  /\ pc = "IsDone"
  /\ IF kind = "greedy"
     THEN /\ pc' = IF GreedySearch_IsDone THEN "Done" ELSE "SetLogits"
          /\ UNCHANGED stream
     ELSE /\ stream' = Append(stream, Op("scorer_is_done", 0, <<>>))
          /\ pc' = "IsDoneLater"
  /\ UNCHANGED <<kind, params_, sequences_space_, sequences_,
                 next_token_scores_, next_tokens_, next_tokens_cpu_, eos_meet_,
                 done_cpu_, masked, steps>>
  /\ UNCHANGED beamvars
  /\ UNCHANGED histvars

\* BeamSearch_Cuda::IsDone, the return statement.
BeamSearch_IsDoneLater ==
  /\ pc = "IsDoneLater" /\ kind = "beam"
  /\ pc' = IF BeamSearch_IsDone THEN "Done" ELSE "SetLogits"
  /\ UNCHANGED <<kind, params_, stream, sequences_space_, sequences_,
                 next_token_scores_, next_tokens_, next_tokens_cpu_, eos_meet_,
                 done_cpu_, masked, steps>>
  /\ UNCHANGED beamvars
  /\ UNCHANGED histvars

\* BeamSearchScorer_Cuda::Finalize for batch element b: the completed
\* hypotheses, filled up from the live beams (best first) when fewer than
\* num_return_sequences are completed, sorted by score.
RECURSIVE Backfill(_, _, _)
Backfill(hyps, live, n) ==
  IF Len(hyps) >= n \/ live = << >> THEN hyps
  ELSE Backfill(InsertHyp(hyps, Head(live)), Tail(live), n)

RECURSIVE SortHyps(_)
SortHyps(hyps) ==
  IF hyps = << >> THEN << >> ELSE InsertHyp(SortHyps(Tail(hyps)), Head(hyps))

LiveHyps(scorer, gpu, seq, b, p) ==
  [i \in 1 .. p.num_beams |->
     [tokens |-> DeviceRow(gpu, seq.current_sequences_buffer,
                           b * p.num_beams + i - 1, seq.current_length_, p),
      score |-> scorer.next_beam_scores_[b * p.num_beams + i - 1]]]

Admitted(scorer, gpu, seq, b, n, p) ==
  Backfill(scorer.beam_hyps_[b], SortHyps(LiveHyps(scorer, gpu, seq, b, p)), n)

BeamSearchScorer_Finalize(scorer, gpu, seq, n, output, sequence_scores, p) ==
  LET hyps == [b \in Idx(p.batch_size) |-> Admitted(scorer, gpu, seq, b, n, p)]
  IN  [output |->
         [k \in DOMAIN output |->
            LET r == k \div p.max_length
                j == k % p.max_length
                h == hyps[r \div n]
            IN  IF (r % n) + 1 <= Len(h)
                THEN IF j < Len(h[(r % n) + 1].tokens)
                     THEN h[(r % n) + 1].tokens[j + 1] ELSE p.pad_token_id
                ELSE output[k]],
       sequence_scores |->
         [r \in DOMAIN sequence_scores |->
            LET h == hyps[r \div n]
            IN  IF (r % n) + 1 <= Len(h) THEN h[(r % n) + 1].score
                ELSE sequence_scores[r]]]

\* Mutant: the scores buffer is not handed on to the scorer.
Mutant_Finalize_NoScores(n) ==
  /\ pc = "Done" /\ kind = "beam"
  /\ stream = << >>
  /\ output_.calls < 2
  /\ output_.calls = 1 => n = Len(output_.first.sequence_scores) \div params_.batch_size
  /\ LET fresh == Garbage - output_.calls
         w == BeamSearchScorer_Finalize(beam_scorer_, sequences_gpu_, sequences_, n,
                 Const(params_.batch_size * n * params_.max_length, fresh),
                 Const(params_.batch_size * n, fresh), params_)
         out == [k \in 1 .. (params_.batch_size * n * params_.max_length) |->
                   w.output[k - 1]]
         sc  == [k \in 1 .. (params_.batch_size * n) |-> fresh]
     IN  output_' = [calls |-> output_.calls + 1, output |-> out,
                     sequence_scores |-> sc,
                     first |-> IF output_.calls = 0
                               THEN [output |-> out, sequence_scores |-> sc]
                               ELSE output_.first]
  /\ UNCHANGED <<kind, params_, pc, stream, sequences_space_, sequences_,
                 next_token_scores_, next_tokens_, next_tokens_cpu_, eos_meet_,
                 done_cpu_, sequences_gpu_, topk_next_, beam_scorer_, masked, steps,
                 appended>>
  /\ UNCHANGED histvars

\* BeamSearch_Cuda::Finalize(num_return_sequences, output, sequence_scores),
\* called once generation is done; the caller may call it again with fresh
\* buffers and the same num_return_sequences.
BeamSearch_Finalize(n) ==
  /\ pc = "Done" /\ kind = "beam"
  /\ stream = << >>
  /\ output_.calls < 2
  /\ output_.calls = 1 => n = Len(output_.first.sequence_scores) \div params_.batch_size
  /\ LET fresh == Garbage - output_.calls
         w == BeamSearchScorer_Finalize(beam_scorer_, sequences_gpu_, sequences_, n,
                 Const(params_.batch_size * n * params_.max_length, fresh),
                 Const(params_.batch_size * n, fresh), params_)
         out == [k \in 1 .. (params_.batch_size * n * params_.max_length) |->
                   w.output[k - 1]]
         sc  == [k \in 1 .. (params_.batch_size * n) |-> w.sequence_scores[k - 1]]
     IN  output_' = [calls |-> output_.calls + 1, output |-> out,
                     sequence_scores |-> sc,
                     first |-> IF output_.calls = 0
                               THEN [output |-> out, sequence_scores |-> sc]
                               ELSE output_.first]
  /\ UNCHANGED <<kind, params_, pc, stream, sequences_space_, sequences_,
                 next_token_scores_, next_tokens_, next_tokens_cpu_, eos_meet_,
                 done_cpu_, sequences_gpu_, topk_next_, beam_scorer_, masked, steps,
                 appended>>
  /\ UNCHANGED histvars

Next ==
  \/ Device
  \/ IsDone
  \/ BeamSearch_IsDoneLater
  \/ SetLogits
  \/ MinLength(MinLengthArg)
  \/ GreedySearch_NextTokensFromLogits
  \/ CheckForEOS
  \/ GreedySearch_AppendNextTokensToSequences
  \/ BeamSearch_NextTokensFromLogits
  \/ BeamSearch_Process
  \/ BeamSearch_AppendNextTokensToSequences
  \/ \E n \in 1 .. MaxBeams : n <= params_.num_beams /\ BeamSearch_Finalize(n)

Spec == Init /\ [][Next]_vars

\* ------------------------------------------------------------- properties
\* The device executes the queued operation `name` in this step.
Exec(name) ==
  stream # << >> /\ Head(stream).op = name /\ stream' = Tail(stream)

\* AppendNextTokensToSequences returns to the caller in this step.
AppendReturns == pc = "Append" /\ pc' = "IsDone"

\* IsDone returns to the caller in this step.
IsDoneReturns == pc \in {"IsDone", "IsDoneLater"} /\ pc' \in {"Done", "SetLogits"}

\* Row r of the host-resident half, as far as the current length.
HostRow(r) ==
  [j \in 1 .. sequences_.current_length_ |->
     sequences_space_[r * params_.max_length + j - 1]]

\* Row r of the active device half, as far as the current length.
CurrentDeviceRow(r) ==
  DeviceRow(sequences_gpu_, sequences_.current_sequences_buffer, r,
            sequences_.current_length_, params_)

\* The prompt of the batch element row r belongs to.
Prompt(r) ==
  [j \in 1 .. params_.sequence_length |->
     params_.input_ids[(r \div params_.num_beams) * params_.sequence_length + j - 1]]

Count(seq, h) == Cardinality({i \in DOMAIN seq : seq[i] = h})

\* C1: every AppendNextTokensToSequences call that returns, greedy or beam,
\* increases the sequence length by exactly 1, nothing else changes the
\* length, and the length never exceeds max_length.
C1_LengthGrowsByOne ==
  /\ [](sequences_.current_length_ <= params_.max_length)
  /\ [][/\ (AppendReturns =>
              sequences_'.current_length_ = sequences_.current_length_ + 1)
         /\ (~AppendReturns =>
              sequences_'.current_length_ = sequences_.current_length_)]_vars

\* C1 witness: two appends have been made and the length has reached max_length.
C1_Witness ==
  /\ steps = 2
  /\ sequences_.current_length_ = params_.max_length
  /\ sequences_.current_length_ = params_.sequence_length + 2

C3_FrozenOnCompletion ==
  [][kind = "beam" =>
       \A b \in Idx(params_.batch_size) :
         \A i \in DOMAIN beam_scorer_.beam_hyps_[b] :
           LET old == beam_scorer_.beam_hyps_[b]
               new == beam_scorer_'.beam_hyps_[b]
               h == old[i]
           IN  \/ Count(new, h) >= Count(old, h)
               \/ /\ Len(old) = params_.num_beams
                  /\ Len(new) = params_.num_beams
                  /\ \E k \in DOMAIN new :
                        /\ Count(new, new[k]) > Count(old, new[k])
                        /\ new[k].score > h.score]_vars

\* C3 witness: a hypothesis completed in the first step is still recorded,
\* with the tokens it had then, after the second Process and append.
C3_Witness ==
  /\ kind = "beam" /\ steps = 2 /\ pc = "IsDone"
  /\ \E b \in Idx(params_.batch_size) :
        \E i \in DOMAIN beam_scorer_.beam_hyps_[b] :
           beam_scorer_.beam_hyps_[b][i].tokens = Prompt(b * params_.num_beams)

C5_RoundTrip ==
  kind = "greedy" =>
    \A r \in Idx(BatchBeamSize(params_)) : HostRow(r) = Prompt(r) \o appended[r]

\* C5 witness: two tokens have been appended to each of two rows, and the
\* rows received different tokens.
C5_Witness ==
  /\ kind = "greedy" /\ params_.batch_size = 2 /\ steps = 2
  /\ appended[0] # appended[1]
  /\ appended[0][1] # appended[0][2]

\* C6 as stated: in a step in which MinLength wrote its mask (the length is
\* below min_length), eos_token_id is selected for no row: the greedy
\* selection never yields it and the beam scorer completes no hypothesis.
C6_MinLengthMasksEos ==
  [][masked =>
       /\ (Exec("argmax") =>
             \A r \in Idx(params_.batch_size) :
                next_tokens_'[r] # params_.eos_token_id)
       /\ ((pc = "Synchronize" /\ pc' = "CheckForEOS") =>
             beam_scorer_'.beam_hyps_ = beam_scorer_.beam_hyps_)]_vars

\* C7: the token the greedy selection writes for a row is an index of the
\* maximum of the row's scores, and no lower index holds the maximum.
C7_GreedyArgmax ==
  [][(kind = "greedy" /\ Exec("argmax")) =>
       \A r \in Idx(params_.batch_size) :
         LET row == Row(next_token_scores_, r, params_.vocab_size)
             t == next_tokens_'[r]
         IN  /\ t \in Idx(params_.vocab_size)
             /\ \A v \in Idx(params_.vocab_size) : row[v] <= row[t]
             /\ \A v \in Idx(t) : row[v] < row[t]]_vars

\* C7 witness: the selection has run on a row whose maximum is shared by
\* the tokens 1 and 2 only, and chose 1.
C7_Witness ==
  /\ kind = "greedy" /\ stream # << >> /\ Head(stream).op = "check_eos"
  /\ params_.vocab_size = 3
  /\ LET row == Row(next_token_scores_, 0, params_.vocab_size)
     IN  row[1] = row[2] /\ row[0] < row[1]
  /\ next_tokens_[0] = 1

\* C8: once a beam step has appended (the device append has run and
\* AppendNextTokensToSequences has returned), every row i of the sequence
\* buffer is what row next_beam_indices_[i] was before the step, followed
\* by next_beam_tokens_[i].
C8_BeamReorder ==
  ( /\ kind = "beam" /\ steps >= 1
    /\ pc \notin {"CheckForEOS", "Append"}
    /\ \A k \in DOMAIN stream : stream[k].op # "append_device" ) =>
    \A i \in Idx(BatchBeamSize(params_)) :
       CurrentDeviceRow(i)
         = Append(DeviceRow(sequences_gpu_, 1 - sequences_.current_sequences_buffer,
                            beam_scorer_.next_beam_indices_[i],
                            sequences_.current_length_ - 1, params_),
                  beam_scorer_.next_beam_tokens_[i])

\* C8 witness: from the prompt [0,1], the tokens {2,0} with the source
\* indices {0,0} have made the rows [0,1,2] and [0,1,0].
C8_Witness ==
  /\ kind = "beam" /\ pc = "IsDone" /\ steps = 1 /\ stream = << >>
  /\ Prompt(0) = << 0, 1 >>
  /\ beam_scorer_.next_beam_tokens_ = (0 :> 2 @@ 1 :> 0)
  /\ beam_scorer_.next_beam_indices_ = (0 :> 0 @@ 1 :> 0)
  /\ CurrentDeviceRow(0) = << 0, 1, 2 >>
  /\ CurrentDeviceRow(1) = << 0, 1, 0 >>

\* C9: in beam search IsDone returns true whenever the length equals
\* max_length, whatever the scorer reports, so the loop makes at most
\* max_length - sequence_length steps and never asks for an append beyond
\* max_length.
C9_BeamTerminates ==
  /\ [](kind = "beam" =>
          /\ steps <= params_.max_length - params_.sequence_length
          /\ (pc \in {"SetLogits", "MinLength", "NextTokens", "Synchronize",
                      "CheckForEOS", "Append"} =>
                sequences_.current_length_ < params_.max_length))
  /\ [][(kind = "beam" /\ IsDoneReturns
          /\ sequences_.current_length_ = params_.max_length) => pc' = "Done"]_vars

\* C9 witness: the loop ended at max_length while the scorer did not report
\* that it is done.
C9_Witness ==
  /\ kind = "beam" /\ pc = "Done" /\ steps >= 1 /\ stream = << >>
  /\ sequences_.current_length_ = params_.max_length
  /\ ~beam_scorer_.done_cpu

\* C10: in greedy search, once an append has brought the length to
\* max_length the done flag is true, the loop ends at its next test and no
\* append beyond max_length is asked for.
C10_GreedyDoneAtMaxLength ==
  /\ [](( /\ kind = "greedy" /\ steps >= 1
           /\ sequences_.current_length_ = params_.max_length) =>
          done_cpu_ /\ pc \in {"IsDone", "Done"})
  /\ [][(kind = "greedy" /\ IsDoneReturns /\ done_cpu_) => pc' = "Done"]_vars

\* C10 witness: the loop ended because of the length, with a row that has
\* not met end-of-sequence.
C10_Witness ==
  /\ kind = "greedy" /\ pc = "Done" /\ steps >= 1
  /\ sequences_.current_length_ = params_.max_length
  /\ \E r \in DOMAIN eos_meet_ : ~eos_meet_[r]

\* Every row has emitted end-of-sequence: the construction-time reset of
\* eos_meet_ has run and each row is flagged since.
AllRowsEmittedEos ==
  /\ \A k \in DOMAIN stream : stream[k].op # "memset_eos_meet"
  /\ \A r \in DOMAIN eos_meet_ : eos_meet_[r]

\* C11 as stated: the done flag is false right after construction, and it is
\* true only if all rows have emitted end-of-sequence or the length has
\* reached max_length.
C11_DoneFlagReset ==
  done_cpu_ =>
    \/ sequences_.current_length_ = params_.max_length
    \/ AllRowsEmittedEos

\* C11, later part only: once the first step has selected its tokens, the
\* flag the loop of greedy search reads as true has one of the two causes,
\* or it was true since construction.
C11_SetOnlyForCause ==
  [][(~done_cpu_ /\ done_cpu_') =>
        \/ sequences_'.current_length_ = params_.max_length
        \/ \A r \in Idx(Cardinality(DOMAIN next_tokens_)) : eos_meet_'[r]]_vars

\* C12 as stated: a greedy step makes no blocking device-to-host copy and no
\* stream synchronization; the selected tokens are copied to the host only
\* for the last token, the one that brings the length to max_length.
C12_NoBlockingCopy ==
  (kind = "greedy" /\ sequences_.current_length_ < params_.max_length) =>
    syncs = 0

\* The scorer's Process is called in this step.
ProcessRuns == kind = "beam" /\ pc = "Synchronize" /\ pc' # "Synchronize"

\* C13: a beam step synchronizes with the stream exactly once, between the
\* enqueueing of the additive broadcast and the top-k selection and the call
\* of Process; when Process reads the candidates the stream is empty, so the
\* selection enqueued in the step has finished writing them.
C13_SingleRendezvous ==
  /\ [](kind = "beam" =>
          /\ (pc \in {"MinLength", "NextTokens", "Synchronize"} => syncs = 0)
          /\ (pc \in {"CheckForEOS", "Append"} => syncs = 1)
          /\ ((pc \in {"IsDone", "IsDoneLater", "Done"} /\ steps >= 1) => syncs = 1))
  /\ [][ProcessRuns =>
          /\ stream = << >>
          /\ (params_.num_beams <= TopKMaxBeams => selected)]_vars

\* C13 witness: in the second step Process has run on candidates selected in
\* that step, after the one synchronization.
C13_Witness ==
  /\ kind = "beam" /\ pc = "CheckForEOS" /\ steps = 1
  /\ syncs = 1 /\ selected
  /\ topk_next_.tokens[0] = beam_scorer_.next_beam_tokens_[0]

\* C14: in beam search, once the scorer's criterion held after some step,
\* every IsDone call of a later step returns true; and IsDone returns true
\* only if the criterion held after some step or the length is max_length.
C14_LagAtMostOne ==
  /\ [][(kind = "beam" /\ IsDoneReturns /\ met > 0 /\ steps > met) =>
          pc' = "Done"]_vars
  /\ [][(kind = "beam" /\ IsDoneReturns /\ pc' = "Done") =>
          (met > 0 \/ sequences_.current_length_ = params_.max_length)]_vars

\* C14 witness: the criterion first held after one step, the poll that
\* followed returned false, one more step ran, and the next poll returned
\* true short of max_length.
C14_Witness ==
  /\ kind = "beam" /\ pc = "Done"
  /\ met > 0 /\ steps = met + 1
  /\ sequences_.current_length_ < params_.max_length

\* The selection of the current step has finished and Process is about to
\* read what it produced.
CandidatesSelected ==
  kind = "beam" /\ pc = "Synchronize" /\ stream = << >> /\ selected

\* The candidates of batch element b that the selection wrote and whose
\* token is not end-of-sequence.
ViableCandidates(b) ==
  { j \in Idx(2 * params_.num_beams) :
      topk_next_.tokens[b * 2 * params_.num_beams + j]
        \notin {params_.eos_token_id, Garbage} }

\* Process fills num_beams live slots from the candidates, however a read
\* of a slot that was never written comes out.
NeverExhausted ==
  \A g \in UnwrittenReads(params_) :
     ~BeamSearchScorer_Exhausted(beam_scorer_,
                                 ReadCandidates(topk_next_, g, params_),
                                 sequences_gpu_, sequences_, params_)

\* C15 as stated: in every beam step the 2 * num_beams candidates of every
\* batch element hold at least num_beams candidates that are not
\* end-of-sequence, and Process never runs out of candidates.
C15_EnoughViableCandidates ==
  CandidatesSelected =>
    /\ \A b \in Idx(params_.batch_size) :
          Cardinality(ViableCandidates(b)) >= params_.num_beams
    /\ NeverExhausted

\* C15, amended: the same for a vocabulary of at least two tokens, where
\* every candidate slot is written.
C15_EnoughViableFromTwoTokens ==
  (CandidatesSelected /\ params_.vocab_size >= 2) =>
    /\ Unwritten(topk_next_, params_) = {}
    /\ \A b \in Idx(params_.batch_size) :
          Cardinality(ViableCandidates(b)) >= params_.num_beams
    /\ NeverExhausted

\* C15 witness: the best candidate of the first batch element is
\* end-of-sequence and is set aside; enough others remain.
C15_Witness ==
  /\ CandidatesSelected /\ params_.vocab_size >= 2
  /\ topk_next_.tokens[0] = params_.eos_token_id
  /\ Cardinality(ViableCandidates(0)) = params_.num_beams

\* The candidates of batch element b that Process walks: those in front of
\* which fewer than num_beams candidates are not end-of-sequence.
Walked(b) ==
  { j \in Idx(2 * params_.num_beams) :
      Cardinality({ i \in Idx(j) :
                      topk_next_.tokens[b * 2 * params_.num_beams + i]
                        # params_.eos_token_id }) < params_.num_beams }

\* The end-of-sequence candidates among them, as the hypotheses they stand for.
WalkedEos(b) ==
  { j \in Walked(b) :
      topk_next_.tokens[b * 2 * params_.num_beams + j] = params_.eos_token_id }

EosHypothesis(b, j) ==
  [tokens |-> DeviceRow(sequences_gpu_, sequences_.current_sequences_buffer,
                        b * params_.num_beams
                          + topk_next_.indices[b * 2 * params_.num_beams + j],
                        sequences_.current_length_, params_),
   score |-> topk_next_.scores[b * 2 * params_.num_beams + j]]

\* Number of hypotheses in the sequence hyps that score at least s.
CountAtLeast(hyps, s) ==
  Cardinality({ i \in DOMAIN hyps : hyps[i].score >= s })

Least(m, n) == IF m < n THEN m ELSE n

\* C16: the completed set of a batch element never holds more than num_beams
\* hypotheses, and a Process call on selected candidates leaves in it the
\* best num_beams of its former members and the end-of-sequence candidates
\* walked: a candidate comes in when the set is not full or when it beats the
\* worst member, which then leaves; what is left out scores no better than
\* what is kept.
C16_AdmissionRule ==
  /\ [](kind = "beam" =>
          \A b \in Idx(params_.batch_size) :
             Len(beam_scorer_.beam_hyps_[b]) <= params_.num_beams)
  /\ [][(ProcessRuns /\ pc' = "CheckForEOS" /\ Unwritten(topk_next_, params_) = {}) =>
          \A b \in Idx(params_.batch_size) :
             LET old == beam_scorer_.beam_hyps_[b]
                 new == beam_scorer_'.beam_hyps_[b]
                 in  == { EosHypothesis(b, j) : j \in WalkedEos(b) }
             IN  /\ \A i \in DOMAIN new :
                       new[i] \in in \cup { old[k] : k \in DOMAIN old }
                 /\ \A s \in { h.score : h \in in }
                               \cup { old[k].score : k \in DOMAIN old } :
                       CountAtLeast(new, s)
                         = Least(params_.num_beams,
                                 CountAtLeast(old, s)
                                   + Cardinality({ j \in WalkedEos(b) :
                                                     EosHypothesis(b, j).score >= s }))
                 /\ Len(new) = Least(params_.num_beams,
                                     Len(old) + Cardinality(WalkedEos(b)))]_vars

\* C16 witness: in a later step an end-of-sequence candidate was admitted
\* to a set that held a hypothesis of an earlier step, and the set is full.
C16_Witness ==
  /\ kind = "beam" /\ pc = "CheckForEOS" /\ steps >= 1
  /\ Len(beam_scorer_.beam_hyps_[0]) = params_.num_beams
  /\ \E i, k \in DOMAIN beam_scorer_.beam_hyps_[0] :
        /\ Len(beam_scorer_.beam_hyps_[0][i].tokens) = sequences_.current_length_
        /\ Len(beam_scorer_.beam_hyps_[0][k].tokens) < sequences_.current_length_

\* Entry (i, q, v) of the logits tensor handed to the last SetLogits call.
LogitAt(i, q, v) ==
  logits_.data[(i * logits_.input_length + q) * params_.vocab_size + v]

\* The copies SetLogits has just enqueued that write row i of the scores.
CopiesInto(i) ==
  { k \in (Len(stream) + 1) .. Len(stream') :
      /\ stream'[k].op = "memcpy_logits"
      /\ stream'[k].row = i * params_.vocab_size }

\* C17: SetLogits enqueues one copy per row, and the copy for row i writes
\* logits[i, input_length - 1, v] to (i, v) for every token v and leaves
\* every other row as it was.
C17_LastPositionOnly ==
  /\ [][(pc = "SetLogits" /\ pc' = "MinLength") =>
          \A i \in Idx(BatchBeamSize(params_)) : Cardinality(CopiesInto(i)) = 1]_vars
  /\ [][Exec("memcpy_logits") =>
          LET i == Head(stream).row \div params_.vocab_size IN
          /\ i \in Idx(BatchBeamSize(params_))
          /\ \A k \in DOMAIN next_token_scores_ :
                next_token_scores_'[k] =
                  IF k \div params_.vocab_size = i
                  THEN LogitAt(i, logits_.input_length - 1, k % params_.vocab_size)
                  ELSE next_token_scores_[k]]_vars

\* C17 witness: with an input of more than one position, the copy of the
\* second row has run and the row holds the slice of the last position,
\* which differs from the slice of the first position and from the first row's.
C17_Witness ==
  /\ pc = "MinLength" /\ logits_.input_length >= 2
  /\ stream # << >> /\ Head(stream).op = "log_softmax" /\ Head(stream).row = 1
  /\ \A v \in Idx(params_.vocab_size) :
        /\ next_token_scores_[params_.vocab_size + v]
             = LogitAt(1, logits_.input_length - 1, v)
        /\ next_token_scores_[params_.vocab_size + v] # LogitAt(1, 0, v)
  /\ \E v \in Idx(params_.vocab_size) :
        LogitAt(1, logits_.input_length - 1, v) # LogitAt(0, logits_.input_length - 1, v)

\* The copy of the sequence buffer to the device that the constructor of
\* BeamSearch_Cuda enqueues has run.
ConstructionCopied ==
  \A k \in DOMAIN stream : stream[k].op # "memcpy_sequences"

\* C18: every beam row k of every batch element b holds input_ids
\* [b * sequence_length + j] at every position j of the prompt, on the host
\* and, in beam search, on the device once the constructor's copy has run;
\* before the first append the length is the prompt length.
C18_PromptInEveryRow ==
  /\ \A b \in Idx(params_.batch_size) : \A k \in Idx(params_.num_beams) :
        \A j \in Idx(params_.sequence_length) :
           LET at == (b * params_.num_beams + k) * params_.max_length + j
               token == params_.input_ids[b * params_.sequence_length + j]
           IN  /\ sequences_space_[at] = token
               /\ (kind = "beam" /\ ConstructionCopied /\ steps = 0) =>
                     sequences_gpu_[at] = token
  /\ steps = 0 =>
       /\ sequences_.current_length_ = params_.sequence_length
       /\ sequences_.current_sequences_buffer = 0

\* C18 witness: a beam search over a prompt of two different tokens has been
\* constructed and its second beam row holds the prompt on the device.
C18_Witness ==
  /\ kind = "beam" /\ steps = 0 /\ pc = "IsDone" /\ stream = << >>
  /\ params_.sequence_length >= 2
  /\ params_.input_ids[0] # params_.input_ids[1]
  /\ CurrentDeviceRow(1) = Prompt(1)
  /\ HostRow(1) = Prompt(0)

\* The assertion of Search_Cuda::CheckForEOS.
SizesAgree ==
  /\ Cardinality(DOMAIN next_tokens_) = Cardinality(DOMAIN eos_meet_)
  /\ Cardinality(DOMAIN next_tokens_) = BatchBeamSize(params_)

C20_ProcessOnlyAfterSelection ==
  /\ [][(kind = "beam" /\ pc = "NextTokens" /\ params_.num_beams > TopKMaxBeams) =>
          pc' \in {"NextTokens", "Fatal"}]_vars
  /\ [][ProcessRuns => selected]_vars
====
